---- MODULE Spec2Model ----
(***************************************************************************)
(* Model of sports-betting/src/app/profile/page.tsx: the ProfilePage       *)
(* component (identity-driven load effect, handleAddFunds) and the         *)
(* AddFundsModal component (handleSubmit, Cancel, onChange), running in    *)
(* one or two browser tabs against one Firestore database.                 *)
(*                                                                         *)
(* Money is counted in hundredths of a dollar (Scale), so that the texts   *)
(* "25.50" and "50" parse to 2550 and 5000.                                *)
(***************************************************************************)
EXTENDS Integers, Sequences, FiniteSets, TLC

\* ------------------------------------------------------------------ bounds
MaxLoads == 2       \* fetchUserData invocations that reach a fetch, per page
MaxDeposits == 1    \* updateDoc calls that one page issues

Scale == 100

\* ------------------------------------------------------------- identities
NoUser == "none"
Ids == {"A", "B"}
Tabs == {1, 2}

\* --------------------------------------------------------------- database
\* users/{id}: `has` is the set of fields that the document carries
Missing == [exists |-> FALSE, has |-> {}, walletBalance |-> 0, trades |-> <<>>]
BareDoc == [exists |-> TRUE, has |-> {}, walletBalance |-> 0, trades |-> <<>>]
UserDoc(b, ts) ==
  [exists |-> TRUE, has |-> {"walletBalance", "trades"},
   walletBalance |-> b, trades |-> ts]

TradeIds == {"t1", "t2", "t3"}
EventIds == {"e1", "e2"}
NoEvent == "undefined"

\* trades/{id}: the fields of Trade that the page's logic reads
TradeData(id) ==
  CASE id = "t1" -> [eventId |-> "e1", createdAt |-> 1]
    [] id = "t2" -> [eventId |-> "e2", createdAt |-> 3]
    [] id = "t3" -> [eventId |-> "e1", createdAt |-> 3]

\* ------------------------------------------------------------------ texts
Digits == {"0", "1", "2", "3", "4", "5", "6", "7", "8", "9"}
DigitVal(c) ==
  CASE c = "0" -> 0 [] c = "1" -> 1 [] c = "2" -> 2 [] c = "3" -> 3
    [] c = "4" -> 4 [] c = "5" -> 5 [] c = "6" -> 6 [] c = "7" -> 7
    [] c = "8" -> 8 [] c = "9" -> 9

Empty == <<>>
Texts == { Empty,
           <<"a", "b", "c">>,
           <<"-", "5">>,
           <<"0">>,
           <<"2", "5", ".", "5", "0">>,
           <<"5", "0">> }

NaN == [nan |-> TRUE, val |-> 0]
Num(v) == [nan |-> FALSE, val |-> v]

\* length of the longest run of digits of s starting at position i
RECURSIVE DigitRun(_, _)
DigitRun(s, i) ==
  IF i <= Len(s) /\ s[i] \in Digits THEN 1 + DigitRun(s, i + 1) ELSE 0

\* value of the digits s[i .. i+n-1] read as an integer
RECURSIVE DigitsValue(_, _, _)
DigitsValue(s, i, n) ==
  IF n = 0 THEN 0
  ELSE DigitsValue(s, i, n - 1) * 10 + DigitVal(s[i + n - 1])

\* the first two fraction digits s[i], s[i+1] in hundredths
FractionValue(s, i, n) ==
  (IF n >= 1 THEN DigitVal(s[i]) * 10 ELSE 0)
  + (IF n >= 2 THEN DigitVal(s[i + 1]) ELSE 0)

\* parseFloat: optional sign, digits, optional "." and digits; the longest
\* such prefix is the number, and there is none without a digit
ParseFloat(s) ==
  LET neg == Len(s) >= 1 /\ s[1] = "-"
      signed == Len(s) >= 1 /\ s[1] \in {"-", "+"}
      p == IF signed THEN 2 ELSE 1
      n == DigitRun(s, p)
      dot == p + n <= Len(s) /\ s[p + n] = "."
      m == IF dot THEN DigitRun(s, p + n + 1) ELSE 0
      mag == DigitsValue(s, p, n) * Scale + FractionValue(s, p + n + 1, m)
  IN IF n + m = 0 THEN NaN
     ELSE Num(IF neg THEN 0 - mag ELSE mag)

\* a validation that lets 0 through
IsInvalidAmountNegativeOnly(num) == num.nan \/ num.val < 0

\* page.tsx line 83: the amounts that handleSubmit rejects
IsInvalidAmount(num) == num.nan \/ num.val <= 0

\* ------------------------------------------------------------------ state
VARIABLES
  users,                \* users/{id} documents of the database
  tradeDocs,            \* ids of the documents that exist under trades/
  eventDocs,            \* ids of the documents that exist under events/
  accounts,             \* identities that the auth provider can sign in
  texts,                \* texts that the user types into the amount input
  pages,                \* tabs in which a ProfilePage is mounted
  user,                 \* useAuth().user of each page
  loading,              \* useState(true), line 151
  walletBalance,        \* useState(0), line 152
  trades,               \* useState<Trade[]>([]), line 150
  isAddFundsModalOpen,  \* useState(false), line 154
  amount,               \* AddFundsModal: useState(''), line 71
  isLoading,            \* AddFundsModal: useState(false), line 72
  error,                \* AddFundsModal: useState(''), line 73
  cyc,                  \* fetchUserData invocations of each page
  pend,                 \* handleAddFunds invocations awaiting updateDoc, each
                        \* with the user and walletBalance of its closure
                        \* (source: history, balanceSource at the call)
  last,                 \* history: how the page's latest ended cycle ended
  balanceSource,        \* history: the record walletBalance was taken from
  deposits,             \* history: number of updateDoc calls issued
  loads                 \* history: number of cycles each page has started

envVars == <<tradeDocs, eventDocs, accounts, texts, pages>>
dbVars == <<users, envVars>>
pageVars == <<user, loading, walletBalance, trades, isAddFundsModalOpen>>
modalVars == <<amount, isLoading, error>>
histVars == <<last, balanceSource, deposits, loads>>
vars == <<dbVars, pageVars, modalVars, cyc, pend, histVars>>

NoError == ""
InvalidAmountError == "Please enter a valid amount"
AddFundsError == "Failed to add funds. Please try again."

Slots == 1..MaxLoads
InFlightPc == {"user", "trade", "event"}
Free == [pc |-> "free", uid |-> NoUser, userTrades |-> <<>>, i |-> 0,
         tradesData |-> <<>>]
NoCycle == "none"

InFlight(t, s) == cyc[t][s].pc \in InFlightPc

\* line 181 and line 183: `x || default`
WalletOrZero(d) == IF "walletBalance" \in d.has THEN d.walletBalance ELSE 0
TradesOrEmpty(d) == IF "trades" \in d.has THEN d.trades ELSE <<>>

\* ---------------------------------------------------------------- sorting
\* Array.prototype.sort with the comparator of line 220 (newest first); the
\* sort is stable, so x goes behind every entry that is not older than x
RECURSIVE InsertByDate(_, _)
InsertByDate(x, sorted) ==
  IF sorted = <<>> THEN <<x>>
  ELSE IF Head(sorted).createdAt >= x.createdAt
       THEN <<Head(sorted)>> \o InsertByDate(x, Tail(sorted))
       ELSE <<x>> \o sorted

RECURSIVE SortNewestFirst(_)
SortNewestFirst(list) ==
  IF list = <<>> THEN <<>>
  ELSE InsertByDate(list[Len(list)], SortNewestFirst(SubSeq(list, 1, Len(list) - 1)))

\* lines 207-212: the entry pushed for trade document id
TradeView(id, eventData) ==
  [id |-> id, createdAt |-> TradeData(id).createdAt, event |-> eventData]

\* the AddFundsModal is rendered by the main view only (lines 260-286, 427)
Mounted(t) == t \in pages /\ user[t] # NoUser /\ ~loading[t]
Visible(t) == Mounted(t) /\ isAddFundsModalOpen[t]

\* ------------------------------------------------------- Profile Data Loader
\* a cycle that has returned (how: "published", "nodoc" or "failed")
Ended(c, how) == [c EXCEPT !.pc = how]

\* lines 188-221: the for loop reaches index j with tradesData = data; past
\* the last id the cycle sorts and publishes
Continue(c, j, data) ==
  IF j <= Len(c.userTrades)
  THEN [c EXCEPT !.pc = "trade", !.i = j, !.tradesData = data]
  ELSE [Ended(c, "published") EXCEPT !.tradesData = SortNewestFirst(data)]

\* a loader that discards the list of a cycle whose identity is no longer
\* the present one
SettleIfCurrent(t, s, c) ==
  /\ cyc' = [cyc EXCEPT ![t][s] = IF c.pc \in InFlightPc THEN c ELSE Free]
  /\ last' = IF c.pc \in InFlightPc THEN last
             ELSE [last EXCEPT ![t] = c.pc]
  /\ trades' = IF c.pc = "published" /\ c.uid = user[t]
               THEN [trades EXCEPT ![t] = c.tradesData] ELSE trades
  /\ loading' = IF c.pc \in InFlightPc
                THEN loading ELSE [loading EXCEPT ![t] = FALSE]

\* lines 221 and 225: setTrades on publication, setLoading(false) on return
Settle(t, s, c) ==
  /\ cyc' = [cyc EXCEPT ![t][s] = IF c.pc \in InFlightPc THEN c ELSE Free]
  /\ last' = IF c.pc \in InFlightPc THEN last
             ELSE [last EXCEPT ![t] = c.pc]
  /\ trades' = IF c.pc = "published"
               THEN [trades EXCEPT ![t] = c.tradesData] ELSE trades
  /\ loading' = IF c.pc \in InFlightPc
                THEN loading ELSE [loading EXCEPT ![t] = FALSE]

\* React drops the state of an unmounted AddFundsModal, and the setters its
\* pending handleSubmit still holds no longer reach any mounted dialog
Unmount(t) ==
  /\ amount' = [amount EXCEPT ![t] = Empty]
  /\ isLoading' = [isLoading EXCEPT ![t] = FALSE]
  /\ error' = [error EXCEPT ![t] = NoError]
  /\ pend' = [pend EXCEPT ![t] =
                [k \in 1..Len(pend[t]) |-> [pend[t][k] EXCEPT !.live = FALSE]]]

\* lines 161-173, 230: the identity becomes u and the effect calls
\* fetchUserData, which runs up to its first await
SignIn(t, u) ==
  /\ t \in pages /\ u \in accounts /\ user[t] # u
  /\ loads[t] < MaxLoads
  /\ loads' = [loads EXCEPT ![t] = @ + 1]
  /\ user' = [user EXCEPT ![t] = u]
  /\ cyc' = [cyc EXCEPT ![t][loads[t] + 1] =
               [Free EXCEPT !.pc = "user", !.uid = u]]
  /\ UNCHANGED <<dbVars, loading, walletBalance, trades, isAddFundsModalOpen,
                 modalVars, pend, last, balanceSource, deposits>>

\* lines 161-167, 230, 260: the identity goes away; fetchUserData returns at
\* once and the page renders the sign-in prompt in place of the main view
SignOut(t) ==
  /\ t \in pages /\ user[t] # NoUser
  /\ user' = [user EXCEPT ![t] = NoUser]
  /\ loading' = [loading EXCEPT ![t] = FALSE]
  /\ IF Mounted(t) THEN Unmount(t) ELSE UNCHANGED <<modalVars, pend>>
  /\ UNCHANGED <<dbVars, walletBalance, trades, isAddFundsModalOpen, cyc,
                 histVars>>

\* lines 173-185 and on: getDoc(users/uid) resolves
FetchUser(t, s) ==
  /\ t \in pages /\ cyc[t][s].pc = "user"
  /\ LET c == cyc[t][s]
         d == users[c.uid]
     IN IF ~d.exists
        THEN /\ Settle(t, s, Ended(c, "nodoc"))
             /\ UNCHANGED <<walletBalance, balanceSource>>
        ELSE /\ walletBalance' = [walletBalance EXCEPT ![t] = WalletOrZero(d)]
             /\ balanceSource' = [balanceSource EXCEPT ![t] = c.uid]
             /\ Settle(t, s,
                  Continue([c EXCEPT !.userTrades = TradesOrEmpty(d)], 1, <<>>))
  /\ UNCHANGED <<dbVars, user, isAddFundsModalOpen, modalVars, pend, deposits,
                 loads>>

\* lines 190-192, 213-215: getDoc(trades/tradeId) resolves
FetchTrade(t, s) ==
  /\ t \in pages /\ cyc[t][s].pc = "trade"
  /\ LET c == cyc[t][s]
         tradeId == c.userTrades[c.i]
     IN IF tradeId \in tradeDocs
        THEN Settle(t, s, [c EXCEPT !.pc = "event"])
        ELSE Settle(t, s, Continue(c, c.i + 1, c.tradesData))
  /\ UNCHANGED <<dbVars, user, walletBalance, isAddFundsModalOpen, modalVars,
                 pend, balanceSource, deposits, loads>>

\* a loader that drops a trade whose event document is missing
FetchEventDropsUnknown(t, s) ==
  /\ t \in pages /\ cyc[t][s].pc = "event"
  /\ LET c == cyc[t][s]
         tradeId == c.userTrades[c.i]
         eventId == TradeData(tradeId).eventId
     IN Settle(t, s, Continue(c, c.i + 1,
                 IF eventId \in eventDocs
                 THEN Append(c.tradesData, TradeView(tradeId, eventId))
                 ELSE c.tradesData))
  /\ UNCHANGED <<dbVars, user, walletBalance, isAddFundsModalOpen, modalVars,
                 pend, balanceSource, deposits, loads>>

\* lines 198-212: getDoc(events/eventId) resolves and the entry is pushed
FetchEvent(t, s) ==
  /\ t \in pages /\ cyc[t][s].pc = "event"
  /\ LET c == cyc[t][s]
         tradeId == c.userTrades[c.i]
         eventId == TradeData(tradeId).eventId
         eventData == IF eventId \in eventDocs THEN eventId ELSE NoEvent
     IN Settle(t, s, Continue(c, c.i + 1,
                              Append(c.tradesData, TradeView(tradeId, eventData))))
  /\ UNCHANGED <<dbVars, user, walletBalance, isAddFundsModalOpen, modalVars,
                 pend, balanceSource, deposits, loads>>

\* a loader that publishes what it has assembled when a fetch fails
FetchFailPublishes(t, s) ==
  /\ t \in pages /\ InFlight(t, s)
  /\ cyc' = [cyc EXCEPT ![t][s] = Free]
  /\ last' = [last EXCEPT ![t] = "failed"]
  /\ loading' = [loading EXCEPT ![t] = FALSE]
  /\ trades' = [trades EXCEPT ![t] = SortNewestFirst(cyc[t][s].tradesData)]
  /\ UNCHANGED <<dbVars, user, walletBalance, isAddFundsModalOpen, modalVars,
                 pend, balanceSource, deposits, loads>>

\* lines 222-226: the getDoc that the cycle awaits rejects
FetchFail(t, s) ==
  /\ t \in pages /\ InFlight(t, s)
  /\ Settle(t, s, Ended(cyc[t][s], "failed"))
  /\ UNCHANGED <<dbVars, user, walletBalance, isAddFundsModalOpen, modalVars,
                 pend, balanceSource, deposits, loads>>

\* ------------------------------------------------------------ Add-Funds Dialog
Remove(seq, k) == [j \in 1..(Len(seq) - 1) |-> IF j < k THEN seq[j] ELSE seq[j + 1]]

\* line 333: the Add Funds button of the main view
OpenModal(t) ==
  /\ Mounted(t) /\ ~isAddFundsModalOpen[t]
  /\ isAddFundsModalOpen' = [isAddFundsModalOpen EXCEPT ![t] = TRUE]
  /\ UNCHANGED <<dbVars, user, loading, walletBalance, trades, modalVars, cyc,
                 pend, histVars>>

\* line 116: onChange of the amount input
SetAmount(t, text) ==
  /\ Visible(t) /\ text \in texts /\ text # amount[t]
  /\ amount' = [amount EXCEPT ![t] = text]
  /\ UNCHANGED <<dbVars, pageVars, isLoading, error, cyc, pend, histVars>>

\* lines 130, 429: the Cancel button, enabled also while a submit is in flight
Cancel(t) ==
  /\ Visible(t)
  /\ isAddFundsModalOpen' = [isAddFundsModalOpen EXCEPT ![t] = FALSE]
  /\ UNCHANGED <<dbVars, user, loading, walletBalance, trades, modalVars, cyc,
                 pend, histVars>>

\* lines 77-90 and 232-247: handleSubmit validates and calls handleAddFunds,
\* which runs up to `await updateDoc`; the submit button is disabled while
\* isLoading (line 137)
Submit(t) ==
  /\ Visible(t) /\ ~isLoading[t]
  /\ LET numAmount == ParseFloat(amount[t])
     IN IF IsInvalidAmount(numAmount)
        THEN /\ error' = [error EXCEPT ![t] = InvalidAmountError]
             /\ UNCHANGED <<isLoading, pend, deposits>>
        ELSE IF user[t] = NoUser
        THEN /\ error' = [error EXCEPT ![t] = AddFundsError]
             /\ UNCHANGED <<isLoading, pend, deposits>>
        ELSE /\ deposits[t] < MaxDeposits
             /\ deposits' = [deposits EXCEPT ![t] = @ + 1]
             /\ error' = [error EXCEPT ![t] = NoError]
             /\ isLoading' = [isLoading EXCEPT ![t] = TRUE]
             /\ pend' = [pend EXCEPT ![t] = Append(@,
                           [uid |-> user[t], amount |-> numAmount.val,
                            walletBalance |-> walletBalance[t],
                            source |-> balanceSource[t], live |-> TRUE])]
  /\ UNCHANGED <<dbVars, pageVars, amount, cyc, last, balanceSource, loads>>

\* a balance update that writes the amount alone
NewBalanceAmountOnly(p) == p.amount

\* a balance update that increments what the record holds
NewBalanceFromRecord(p) == WalletOrZero(users[p.uid]) + p.amount

\* line 243: newBalance, from the walletBalance of the handler's closure
NewBalance(p) == p.walletBalance + p.amount

\* lines 247-252 and 91-92, 97: updateDoc resolves; it needs the document
UpdateDocOk(t, k) ==
  /\ t \in pages /\ k \in 1..Len(pend[t])
  /\ LET p == pend[t][k]
         newBalance == NewBalance(p)
     IN /\ users[p.uid].exists
        /\ users' = [users EXCEPT ![p.uid].walletBalance = newBalance,
                                  ![p.uid].has = @ \cup {"walletBalance"}]
        /\ walletBalance' = [walletBalance EXCEPT ![t] = newBalance]
        /\ balanceSource' = [balanceSource EXCEPT ![t] = p.uid]
        /\ isAddFundsModalOpen' = [isAddFundsModalOpen EXCEPT ![t] = FALSE]
        /\ IF p.live
           THEN /\ amount' = [amount EXCEPT ![t] = Empty]
                /\ isLoading' = [isLoading EXCEPT ![t] = FALSE]
           ELSE UNCHANGED <<amount, isLoading>>
        /\ pend' = [pend EXCEPT ![t] = Remove(@, k)]
  /\ UNCHANGED <<envVars, user, loading, trades, error, cyc, last, deposits,
                 loads>>

\* a dialog that clears its input on failure as it does on success
UpdateDocFailClearsAmount(t, k) ==
  /\ t \in pages /\ k \in 1..Len(pend[t])
  /\ LET p == pend[t][k]
     IN IF p.live
        THEN /\ error' = [error EXCEPT ![t] = AddFundsError]
             /\ isLoading' = [isLoading EXCEPT ![t] = FALSE]
             /\ amount' = [amount EXCEPT ![t] = Empty]
        ELSE UNCHANGED <<error, isLoading, amount>>
  /\ pend' = [pend EXCEPT ![t] = Remove(@, k)]
  /\ UNCHANGED <<dbVars, pageVars, cyc, histVars>>

\* lines 253-256 and 93-97: updateDoc rejects and the dialog catches it
UpdateDocFail(t, k) ==
  /\ t \in pages /\ k \in 1..Len(pend[t])
  /\ LET p == pend[t][k]
     IN IF p.live
        THEN /\ error' = [error EXCEPT ![t] = AddFundsError]
             /\ isLoading' = [isLoading EXCEPT ![t] = FALSE]
        ELSE UNCHANGED <<error, isLoading>>
  /\ pend' = [pend EXCEPT ![t] = Remove(@, k)]
  /\ UNCHANGED <<dbVars, pageVars, amount, cyc, histVars>>

\* ------------------------------------------------------------ specification
\* the page renders for the first time with identity u and its effect runs
Mount(t, u) ==
  /\ user[t] = u
  /\ loads[t] = IF u = NoUser THEN 0 ELSE 1
  /\ loading[t] = (u # NoUser)
  /\ cyc[t] = [s \in Slots |->
                 IF s = 1 /\ u # NoUser
                 THEN [Free EXCEPT !.pc = "user", !.uid = u] ELSE Free]

Pristine(t) ==
  /\ user[t] = NoUser /\ loading[t] = TRUE /\ loads[t] = 0
  /\ cyc[t] = [s \in Slots |-> Free]

InitPages ==
  /\ walletBalance = [t \in Tabs |-> 0]
  /\ trades = [t \in Tabs |-> <<>>]
  /\ isAddFundsModalOpen = [t \in Tabs |-> FALSE]
  /\ amount = [t \in Tabs |-> Empty]
  /\ isLoading = [t \in Tabs |-> FALSE]
  /\ error = [t \in Tabs |-> NoError]
  /\ pend = [t \in Tabs |-> <<>>]
  /\ balanceSource = [t \in Tabs |-> NoUser]
  /\ last = [t \in Tabs |-> NoCycle]
  /\ deposits = [t \in Tabs |-> 0]
  /\ loads \in [Tabs -> {0, 1}]
  /\ user \in [Tabs -> Ids \cup {NoUser}]
  /\ loading \in [Tabs -> BOOLEAN]
  /\ cyc \in [Tabs -> [Slots -> {Free} \cup {[Free EXCEPT !.pc = "user", !.uid = u] : u \in Ids}]]
  /\ \A t \in Tabs : IF t \in pages THEN \E u \in accounts \cup {NoUser} : Mount(t, u)
                                    ELSE Pristine(t)

\* one page and two accounts: A's trade and its event are in place, the
\* trade id of B dangles
Init ==
  /\ users = [u \in Ids |-> IF u = "A" THEN UserDoc(10000, <<"t1">>)
                                       ELSE UserDoc(5000, <<"t3">>)]
  /\ tradeDocs = {"t1", "t2"}
  /\ eventDocs = {"e1"}
  /\ accounts = Ids
  /\ texts = {Empty, <<"5", "0">>}
  /\ pages = {1}
  /\ InitPages

Load(t) ==
  \/ \E s \in Slots : FetchUser(t, s)
  \/ \E s \in Slots : FetchTrade(t, s)
  \/ \E s \in Slots : FetchEvent(t, s)
  \/ \E s \in Slots : FetchFail(t, s)

Next ==
  \E t \in Tabs :
    \/ \E u \in Ids : SignIn(t, u)
    \/ SignOut(t)
    \/ Load(t)
    \/ OpenModal(t)
    \/ \E text \in Texts : SetAmount(t, text)
    \/ Cancel(t)
    \/ Submit(t)
    \/ \E k \in 1..MaxDeposits : UpdateDocOk(t, k)
    \/ \E k \in 1..MaxDeposits : UpdateDocFail(t, k)

Spec == Init /\ [][Next]_vars

\* one page, one account with every kind of user document, and every text
\* typed into the dialog
InitDialog ==
  /\ users \in [Ids -> {Missing, BareDoc, UserDoc(10000, <<"t1">>)}]
  /\ users["B"] = Missing
  /\ tradeDocs = {"t1"}
  /\ eventDocs = {"e1"}
  /\ accounts = {"A"}
  /\ texts = Texts
  /\ pages = {1}
  /\ InitPages

SpecDialog == InitDialog /\ [][Next]_vars

\* one page that only signs in and out and loads, over every population of
\* trades/ and events/ and every kind of user document for B
InitDb ==
  /\ users \in [Ids -> {Missing, BareDoc, UserDoc(10000, <<"t1", "t2", "t3">>),
                        UserDoc(5000, <<"t2", "t2">>)}]
  /\ users["A"] = UserDoc(10000, <<"t1", "t2", "t3">>)
  /\ users["B"] # users["A"]
  /\ tradeDocs \in SUBSET TradeIds
  /\ eventDocs \in SUBSET EventIds
  /\ accounts = Ids
  /\ texts = {}
  /\ pages = {1}
  /\ InitPages

NextDb ==
  \E t \in Tabs :
    \/ \E u \in Ids : SignIn(t, u)
    \/ SignOut(t)
    \/ Load(t)

SpecDb == InitDb /\ [][NextDb]_vars

\* two pages of the same account, both signed in for good
InitTabs ==
  /\ users = [u \in Ids |-> IF u = "A" THEN UserDoc(10000, <<"t1">>) ELSE Missing]
  /\ tradeDocs = {"t1"}
  /\ eventDocs = {}
  /\ accounts = {"A"}
  /\ texts = {<<"2", "5", ".", "5", "0">>, <<"5", "0">>}
  /\ pages = Tabs
  /\ InitPages
  /\ \A t \in Tabs : user[t] = "A"

NextTabs ==
  \E t \in Tabs :
    \/ Load(t)
    \/ OpenModal(t)
    \/ \E text \in Texts : SetAmount(t, text)
    \/ Submit(t)
    \/ \E k \in 1..MaxDeposits : UpdateDocOk(t, k)
    \/ \E k \in 1..MaxDeposits : UpdateDocFail(t, k)

SpecTabs == InitTabs /\ [][NextTabs]_vars

\* ================================================================== claims
\* the cycle kept in slot s of page t returns in this step, ending as `how`
Ends(t, s, how) == InFlight(t, s) /\ cyc'[t][s] = Free /\ last'[t] = how

Idle(t) == \A s \in Slots : ~InFlight(t, s)

\* the ids of account uid's `trades` that resolve to a trade document
Resolves(id) == id \in tradeDocs
ResolvingIds(uid) == SelectSeq(users[uid].trades, Resolves)
Range(seq) == {seq[k] : k \in 1..Len(seq)}
ViewIds(list) == [k \in 1..Len(list) |-> list[k].id]

\* C1: a load cycle that completes without a fetch error publishes exactly
\* the account's trade ids that resolve to a trade document (as many entries
\* as resolving ids, none of them dangling), and an entry whose event
\* document is missing is in the list with no event.
C1_PublishedAreTheResolvingTrades ==
  [][\A t \in Tabs, s \in Slots :
       Ends(t, s, "published") =>
         LET ids == ResolvingIds(cyc[t][s].uid)
             pub == trades'[t]
         IN /\ Len(pub) = Len(ids)
            /\ Range(ViewIds(pub)) = Range(ids)
            /\ \A id \in Range(ids) :
                 Cardinality({k \in 1..Len(pub) : pub[k].id = id})
                   = Cardinality({k \in 1..Len(ids) : ids[k] = id})
            /\ \A k \in 1..Len(pub) :
                 pub[k].event = IF TradeData(pub[k].id).eventId \in eventDocs
                                THEN TradeData(pub[k].id).eventId ELSE NoEvent
            /\ \A k \in 1..(Len(pub) - 1) :
                 pub[k].createdAt >= pub[k + 1].createdAt]_vars

\* C1 witness: A's only cycle has published a list that lacks a dangling id
\* of A's `trades` and holds an entry whose event document is missing.
C1_Witness ==
  /\ user[1] = "A" /\ loads[1] = 1 /\ last[1] = "published"
  /\ Range(users["A"].trades) \ tradeDocs # {}
  /\ \E k \in 1..Len(trades[1]) : trades[1][k].event = NoEvent
  /\ Len(trades[1]) = 2

\* C2: a successful addFunds called with amount a under identity u while the
\* in-memory balance is b persists b + a to users/u, sets the in-memory
\* balance to b + a and closes the dialog; the dialog that submitted has its
\* input cleared and has left the submitting state.
C2_AddFundsSuccess ==
  [][\A t \in Tabs :
       /\ Submit(t) /\ Len(pend'[t]) > Len(pend[t]) =>
            LET p == pend'[t][Len(pend'[t])]
            IN /\ p.uid = user[t] /\ p.uid # NoUser
               /\ p.walletBalance = walletBalance[t]
               /\ p.amount = ParseFloat(amount[t]).val
               /\ isLoading'[t]
       /\ \A k \in 1..Len(pend[t]) :
            UpdateDocOk(t, k) =>
              LET p == pend[t][k]
              IN /\ "walletBalance" \in users'[p.uid].has
                 /\ users'[p.uid].walletBalance = p.walletBalance + p.amount
                 /\ walletBalance'[t] = p.walletBalance + p.amount
                 /\ ~isAddFundsModalOpen'[t]
                 /\ p.live => amount'[t] = Empty /\ ~isLoading'[t]]_vars

\* C2 witness: balance 100, amount 50: the record and the page hold 150 and
\* the dialog is closed and cleared.
C2_Witness ==
  /\ user[1] = "A" /\ deposits[1] = 1 /\ pend[1] = <<>>
  /\ balanceSource[1] = "A"
  /\ users["A"].walletBalance = 150 * Scale
  /\ walletBalance[1] = 150 * Scale
  /\ ~isAddFundsModalOpen[1] /\ amount[1] = Empty /\ ~isLoading[1]
  /\ error[1] = NoError

\* what handleSubmit is to do with each text of Texts: reject it, or call
\* the add-funds operation with this amount (in hundredths)
Rejected == {Empty, <<"a", "b", "c">>, <<"-", "5">>, <<"0">>}
Expected(text) ==
  CASE text = <<"2", "5", ".", "5", "0">> -> 2550
    [] text = <<"5", "0">> -> 5000

\* C3: a submit whose text parses to not-a-number or to a value <= 0 shows
\* the validation error, does not invoke the add-funds operation, changes
\* neither the persisted nor the in-memory balance and leaves the submitting
\* state; a submit whose text parses to a value > 0 invokes the operation
\* once, with the parsed amount ("-5" and "abc" are rejected, "25.50" is
\* passed on as 25.5).
C3_SubmitValidation ==
  [][\A t \in Tabs :
       Submit(t) =>
         LET num == ParseFloat(amount[t])
         IN /\ (num.nan \/ num.val <= 0) <=> amount[t] \in Rejected
            /\ (num.nan \/ num.val <= 0) =>
                 /\ error'[t] = InvalidAmountError
                 /\ pend' = pend /\ users' = users
                 /\ walletBalance' = walletBalance
                 /\ ~isLoading'[t]
            /\ ~(num.nan \/ num.val <= 0) =>
                 /\ Len(pend'[t]) = Len(pend[t]) + 1
                 /\ SubSeq(pend'[t], 1, Len(pend[t])) = pend[t]
                 /\ pend'[t][Len(pend'[t])].amount = Expected(amount[t])
                 /\ num.val = Expected(amount[t])]_vars

\* C3 witness: "-5" was submitted and rejected: the dialog shows the
\* validation error and nothing was ever passed to the add-funds operation.
C3_Witness ==
  /\ Visible(1) /\ amount[1] = <<"-", "5">>
  /\ error[1] = InvalidAmountError /\ ~isLoading[1]
  /\ deposits[1] = 0 /\ pend[1] = <<>>

\* C3 witness for the other half: "25.50" was submitted and the add-funds
\* operation is running with 25.5.
C3_WitnessValid ==
  /\ Len(pend[1]) = 1 /\ pend[1][1].amount = 2550 /\ pend[1][1].live
  /\ amount[1] = <<"2", "5", ".", "5", "0">> /\ isLoading[1]

\* C4 as stated, for a dialog that is still mounted: whenever the add-funds
\* operation signals an error, the in-memory balance is unchanged and the
\* dialog is open, shows the generic failure message, has left the
\* submitting state and holds the amount.
C4_AsStated ==
  [][\A t \in Tabs : \A k \in 1..Len(pend[t]) :
       UpdateDocFail(t, k) /\ pend[t][k].live =>
         /\ walletBalance'[t] = walletBalance[t]
         /\ isAddFundsModalOpen'[t]
         /\ error'[t] = AddFundsError
         /\ ~isLoading'[t]
         /\ amount'[t] = amount[t]]_vars

\* C4 amended: when the add-funds operation signals an error, the in-memory
\* balance, the dialog's open flag and the entered amount stay as they are,
\* and the dialog that submitted, if it is still mounted, shows the generic
\* failure message and has left the submitting state.
C4_AddFundsFailure ==
  [][\A t \in Tabs : \A k \in 1..Len(pend[t]) :
       UpdateDocFail(t, k) =>
         /\ walletBalance'[t] = walletBalance[t]
         /\ users' = users
         /\ isAddFundsModalOpen'[t] = isAddFundsModalOpen[t]
         /\ amount'[t] = amount[t]
         /\ pend[t][k].live => error'[t] = AddFundsError /\ ~isLoading'[t]]_vars

\* C4 witness: the write of 50 was rejected: the dialog is open with the
\* failure message and the amount, and the balance is the loaded one.
C4_Witness ==
  /\ Visible(1) /\ error[1] = AddFundsError /\ ~isLoading[1]
  /\ amount[1] = <<"5", "0">> /\ deposits[1] = 1 /\ pend[1] = <<>>
  /\ balanceSource[1] = "A" /\ walletBalance[1] = 100 * Scale
  /\ users["A"].walletBalance = 100 * Scale

\* C5 as stated, for the first cycle of a page that made no deposit, before
\* which the trade list was empty and the balance 0: if a fetch fails, the
\* loading state has ended and the list is empty and the balance 0 again.
C5_AsStated ==
  \A t \in Tabs :
    last[t] = "failed" /\ loads[t] = 1 /\ deposits[t] = 0 =>
      ~loading[t] /\ trades[t] = <<>> /\ walletBalance[t] = 0

\* C5 amended: a fetch error ends the cycle and the loading state, and the
\* failing step changes neither the trade list nor the balance; no cycle but
\* a publishing one ever changes the trade list; the balance is the one from
\* before the cycle if the user-record fetch failed, but it is the loaded
\* walletBalance (or 0) if a trade or event fetch failed.
C5_FetchFailure ==
  [][\A t \in Tabs :
       /\ trades'[t] # trades[t] => \E s \in Slots : Ends(t, s, "published")
       /\ \A s \in Slots :
            Ends(t, s, "failed") =>
              /\ ~loading'[t]
              /\ trades'[t] = trades[t]
              /\ walletBalance'[t] = walletBalance[t]
              /\ loads[t] = 1 /\ deposits[t] = 0 =>
                   /\ trades'[t] = <<>>
                   /\ walletBalance'[t] =
                        IF cyc[t][s].pc = "user" THEN 0
                        ELSE WalletOrZero(users[cyc[t][s].uid])]_vars

\* C5 witness: A's only cycle failed after the user record had been fetched:
\* the balance is the loaded 100 and the list is still empty.
C5_Witness ==
  /\ user[1] = "A" /\ loads[1] = 1 /\ deposits[1] = 0
  /\ last[1] = "failed" /\ Idle(1) /\ ~loading[1]
  /\ walletBalance[1] = 100 * Scale /\ trades[1] = <<>>

\* C6: when the identity goes away, the cycle that runs ends the loading
\* state and leaves an empty trade list and a balance of 0.
C6_NoIdentityResets ==
  [][\A t \in Tabs :
       user[t] # NoUser /\ user'[t] = NoUser =>
         ~loading'[t] /\ trades'[t] = <<>> /\ walletBalance'[t] = 0]_vars

\* C7: while a load cycle for the present identity is in flight, the page is
\* in its loading state.
C7_LoadingWhileInFlight ==
  \A t \in Tabs :
    (user[t] # NoUser /\ \E s \in Slots : InFlight(t, s) /\ cyc[t][s].uid = user[t])
      => loading[t]

\* C8: a successful write puts the page's cached balance plus the amount
\* into the record whatever the record holds: when the record has moved on
\* from the cached balance, the write does not add to the record's balance,
\* and what the record had gained is lost.
C8_WriteFromCachedBalance ==
  [][\A t \in Tabs : \A k \in 1..Len(pend[t]) :
       LET p == pend[t][k]
       IN UpdateDocOk(t, k) /\ users[p.uid].walletBalance > p.walletBalance =>
            /\ users'[p.uid].walletBalance = p.walletBalance + p.amount
            /\ users'[p.uid].walletBalance < users[p.uid].walletBalance + p.amount]_vars

\* C8 witness: both pages loaded 100; page 1 added 25.50 and page 2 added 50,
\* both with success, and the record holds 125.50 or 150, not 175.50.
C8_Witness ==
  /\ \A t \in Tabs : deposits[t] = 1 /\ pend[t] = <<>> /\ error[t] = NoError
                     /\ ~isAddFundsModalOpen[t] /\ Idle(t)
  /\ walletBalance[1] = 12550 /\ walletBalance[2] = 15000
  /\ users["A"].walletBalance \in {12550, 15000}

\* C9: an identity change leaves the cycles in flight as they are, and a
\* cycle that completes publishes the list (and, on its user fetch, the
\* balance) of the identity it was started for, whatever the identity is by
\* then.
C9_StaleCyclePublishes ==
  [][\A t \in Tabs, s \in Slots :
       /\ InFlight(t, s) /\ user'[t] # user[t] => cyc'[t][s] = cyc[t][s]
       /\ Ends(t, s, "published") =>
            Range(ViewIds(trades'[t])) = Range(ResolvingIds(cyc[t][s].uid))
       /\ cyc[t][s].pc = "user"
            /\ (cyc'[t][s].pc = "trade" \/ Ends(t, s, "published"))
            => walletBalance'[t] = WalletOrZero(users[cyc[t][s].uid])]_vars

\* C9 witness: the identity is B, both cycles have ended, B's before A's,
\* and the page shows the trade list that was loaded for A.
C9_Witness ==
  /\ user[1] = "B" /\ loads[1] = 2 /\ Idle(1) /\ last[1] = "published"
  /\ balanceSource[1] = "B"
  /\ ViewIds(trades[1]) = <<"t1">>
  /\ ResolvingIds("B") = <<>>

\* C10: every value that addFunds persists to users/{id} was computed from
\* a balance loaded from or written to that same record.
C10_WriteFromOwnBalance ==
  [][\A t \in Tabs : \A k \in 1..Len(pend[t]) :
       UpdateDocOk(t, k) => pend[t][k].source = pend[t][k].uid]_vars

====
